---- MODULE Spec2Model ----
(***************************************************************************)
(* Model of voron_monitor.py: the sampling loop of main(), the CSVLogger   *)
(* recorder and the stateful / decoding probes (USBMonitor, PowerMonitor,  *)
(* LogMonitor).                                                            *)
(*                                                                         *)
(* Four specifications share the variables below.  Spec is the loop of     *)
(* main() with CSVLogger; the probes appear in it through what m.check()   *)
(* can do at the call site of line 308 (return a truthy or falsy result,   *)
(* raise an Exception, be cut by KeyboardInterrupt).  SpecUSB, SpecPower   *)
(* and SpecLog model check() of one probe each, in detail; the variables   *)
(* of the other parts stay at their initial values there.                  *)
(***************************************************************************)
EXTENDS Integers, Sequences, FiniteSets, TLC

VARIABLES
    \* ---- main() and CSVLogger
    pc,                 \* position of main(): see PcValues
    idx,                \* index into monitors of the for loop of line 306
    now,                \* the wall clock (time.time(), datetime.now()), in ticks
    start_time,         \* start_time of line 303
    current_data,       \* current_data of line 304: names of the probes merged in
    check_duration_ms,  \* current_data['check_duration_ms'], -1 while unset
    row,                \* the row built by this cycle's CSVLogger.log (line 256)
    primary,            \* primary sink: the cycles whose row self.writer accepted
    mirror,             \* mirror sink: the same for self.backup_writer
    backup_directory,   \* TRUE iff --backup-dir was given
    fault,              \* what the sinks did in this cycle's CSVLogger.log call
    closeCalls,         \* number of CSVLogger.close() invocations
    notice,             \* "Stopping monitor..." or "Critical Error" printed
    cycles,             \* number of cycles started (line 303 executed)
    logCalls,           \* number of CSVLogger.log calls that returned
    invoked,            \* probes whose check() was invoked in this cycle
    raised,             \* probes whose check() raised an Exception in this cycle
    \* ---- USBMonitor
    last_seen_lines,    \* self.last_seen_lines (deque(maxlen=20))
    usb_stdout,         \* result.stdout of the last check()
    usb_events,         \* new_events of the last check()
    \* ---- PowerMonitor
    power_in,           \* the outcomes of the three vcgencmd queries
    power_data,         \* the dict returned by the last check()
    \* ---- LogMonitor
    log_exists,         \* os.path.exists(self.log_path)
    log_file,           \* content of klippy.log (empty while it does not exist)
    file_pos,           \* self.file_pos
    new_lines,          \* new_lines of the last check() (line 207)
    log_errors,         \* errors of the last check() (line 210)
    log_op,             \* what the last check() did: see LogOps
    tracking,           \* TRUE while no shrink and no read error has happened
    appended,           \* the bytes appended since construction, while tracking
    scanned             \* all lines scanned since construction, while tracking

mainVars == <<pc, idx, now, start_time, current_data, check_duration_ms, row,
              primary, mirror, backup_directory, fault, closeCalls, notice,
              cycles, logCalls, invoked, raised>>
usbVars == <<last_seen_lines, usb_stdout, usb_events>>
powerVars == <<power_in, power_data>>
logVars == <<log_exists, log_file, file_pos, new_lines, log_errors, log_op,
             tracking, appended, scanned>>
vars == <<mainVars, usbVars, powerVars, logVars>>

\* ---- bounds of the model
MaxCycles == 2
MaxTime == 1
MaxLines == 2       \* most lines in one dmesg output
MaxLineLen == 2     \* longest kernel-log line, in characters
MaxFile == 4        \* largest size of klippy.log, in characters

Last(s) == s[Len(s)]
Range(s) == {s[i] : i \in 1..Len(s)}

(***************************************************************************)
(* main() and CSVLogger                                                    *)
(***************************************************************************)

\* monitors of lines 287-293, in list order
monitors == <<"USB", "Power", "System", "Latency", "KlipperLog">>
NumMonitors == Len(monitors)

\* Positions inside the try body of lines 301-327
Running == {"start", "probe", "duration", "log", "verbose", "sleep"}
\* "aborted": the process died before the try of line 301 was entered;
\* "exited": main() left the try statement of lines 301-334
PcValues == {"banner", "aborted"} \cup Running
            \cup {"stopping", "critical", "finally", "exited"}

NoRow == [timestamp |-> -1, check_duration_ms |-> -1, data |-> {}]
NoFault == [primary |-> "none", mirror |-> "none"]

MainInit ==
    /\ pc = "banner"
    /\ idx = 1
    /\ now = 0
    /\ start_time = 0
    /\ current_data = {}
    /\ check_duration_ms = -1
    /\ row = NoRow
    /\ primary = <<>>
    /\ mirror = <<>>
    /\ backup_directory \in BOOLEAN
    /\ fault = NoFault
    /\ closeCalls = 0
    /\ notice = "none"
    /\ cycles = 0
    /\ logCalls = 0
    /\ invoked = {}
    /\ raised = {}

\* The state of the probe specifications is not touched by main()'s steps
ProbesIdle == UNCHANGED <<usbVars, powerVars, logVars>>

\* Lines 296-299: the banner is printed before the try statement is entered
Banner ==
    /\ pc = "banner"
    /\ pc' = "start"
    /\ UNCHANGED <<idx, now, start_time, current_data, check_duration_ms, row,
                   primary, mirror, backup_directory, fault, closeCalls, notice,
                   cycles, logCalls, invoked, raised>>
    /\ ProbesIdle

\* Lines 295-299 are outside the try: a KeyboardInterrupt there ends the
\* process with a traceback, and finally (line 334) does not run
BannerInterrupted ==
    /\ pc = "banner"
    /\ pc' = "aborted"
    /\ UNCHANGED <<idx, now, start_time, current_data, check_duration_ms, row,
                   primary, mirror, backup_directory, fault, closeCalls, notice,
                   cycles, logCalls, invoked, raised>>
    /\ ProbesIdle

\* Lines 302-304: top of the while True loop
CycleStart ==
    /\ pc = "start"
    /\ cycles < MaxCycles
    /\ start_time' = now
    /\ current_data' = {}
    /\ check_duration_ms' = -1
    /\ idx' = 1
    /\ invoked' = {}
    /\ raised' = {}
    /\ cycles' = cycles + 1
    /\ row' = NoRow
    /\ fault' = NoFault
    /\ pc' = "probe"
    /\ UNCHANGED <<now, primary, mirror, backup_directory, closeCalls, notice,
                   logCalls>>
    /\ ProbesIdle

\* Line 306: the for loop moves on to the next monitor, or ends
NextMonitor ==
    /\ idx' = IF idx < NumMonitors THEN idx + 1 ELSE idx
    /\ pc' = IF idx < NumMonitors THEN "probe" ELSE "duration"

\* Lines 308-310: m.check() returns; a truthy result is merged.  d is the
\* time the probe took.
ProbeReturns ==
    /\ pc = "probe"
    /\ \E truthy \in BOOLEAN, d \in 0..1 :
        /\ now + d <= MaxTime
        /\ now' = now + d
        /\ current_data' = IF truthy THEN current_data \cup {monitors[idx]}
                           ELSE current_data
    /\ invoked' = invoked \cup {monitors[idx]}
    /\ NextMonitor
    /\ UNCHANGED <<start_time, check_duration_ms, row, primary, mirror,
                   backup_directory, fault, closeCalls, notice, cycles,
                   logCalls, raised>>
    /\ ProbesIdle

\* A probe Exception that ends the loop instead of being caught at line 311
ProbeRaisesUncaught ==
    /\ pc = "probe"
    /\ invoked' = invoked \cup {monitors[idx]}
    /\ raised' = raised \cup {monitors[idx]}
    /\ pc' = "critical"
    /\ UNCHANGED <<idx, now, start_time, current_data, check_duration_ms, row,
                   primary, mirror, backup_directory, fault, closeCalls, notice,
                   cycles, logCalls>>
    /\ ProbesIdle

\* Lines 308, 311-312: m.check() raises an Exception; it is caught, a note
\* is printed and the for loop goes on
ProbeRaises ==
    /\ pc = "probe"
    /\ \E d \in 0..1 :
        /\ now + d <= MaxTime
        /\ now' = now + d
    /\ invoked' = invoked \cup {monitors[idx]}
    /\ raised' = raised \cup {monitors[idx]}
    /\ NextMonitor
    /\ UNCHANGED <<start_time, current_data, check_duration_ms, row, primary,
                   mirror, backup_directory, fault, closeCalls, notice, cycles,
                   logCalls>>
    /\ ProbesIdle

\* Lines 314-315
Duration ==
    /\ pc = "duration"
    /\ check_duration_ms' = now - start_time
    /\ pc' = "log"
    /\ UNCHANGED <<idx, now, start_time, current_data, row, primary, mirror,
                   backup_directory, fault, closeCalls, notice, cycles,
                   logCalls, invoked, raised>>
    /\ ProbesIdle

\* What a sink operation can do: succeed, or raise in writerow, flush, fsync
PrimaryFaults == {"ok", "write", "flush", "fsync"}
MirrorFaults == {"ok", "write", "flush"}

\* Line 256-257: the row of CSVLogger.log; the timestamp is read in log()
BuildRow == [timestamp |-> now,
             check_duration_ms |-> check_duration_ms,
             data |-> current_data]

\* Lines 260-262: the row is accepted by the writer unless writerow raised
PrimaryAfter(pf) == IF pf = "write" THEN primary ELSE Append(primary, cycles)

\* Lines 264-266, inside the same try as lines 260-262: reached only when
\* nothing raised before
MirrorAfter(pf, mf) ==
    IF pf = "ok" /\ backup_directory /\ mf # "write"
    THEN Append(mirror, cycles) ELSE mirror

\* Lines 254-270 (called at line 317): every Exception is caught at line 269
Log ==
    /\ pc = "log"
    /\ \E pf \in PrimaryFaults, mf \in MirrorFaults :
        /\ (pf # "ok" \/ ~backup_directory) => mf = "ok"
        /\ row' = BuildRow
        /\ primary' = PrimaryAfter(pf)
        /\ mirror' = MirrorAfter(pf, mf)
        /\ fault' = [primary |-> pf,
                     mirror |-> IF pf = "ok" /\ backup_directory THEN mf ELSE "none"]
    /\ logCalls' = logCalls + 1
    /\ pc' = "verbose"
    /\ UNCHANGED <<idx, now, start_time, current_data, check_duration_ms,
                   backup_directory, closeCalls, notice, cycles, invoked, raised>>
    /\ ProbesIdle

\* KeyboardInterrupt inside CSVLogger.log after line 260: not an Exception,
\* so line 269 does not catch it and it reaches line 329
LogInterrupted ==
    /\ pc = "log"
    /\ row' = BuildRow
    /\ primary' = Append(primary, cycles)
    /\ fault' = [primary |-> "interrupt", mirror |-> "none"]
    /\ pc' = "stopping"
    /\ UNCHANGED <<idx, now, start_time, current_data, check_duration_ms, mirror,
                   backup_directory, closeCalls, notice, cycles, logCalls,
                   invoked, raised>>
    /\ ProbesIdle

\* Lines 319-323
Verbose ==
    /\ pc = "verbose"
    /\ pc' = "sleep"
    /\ UNCHANGED <<idx, now, start_time, current_data, check_duration_ms, row,
                   primary, mirror, backup_directory, fault, closeCalls, notice,
                   cycles, logCalls, invoked, raised>>
    /\ ProbesIdle

\* Lines 325-327
Sleep ==
    /\ pc = "sleep"
    /\ \E d \in 0..1 :
        /\ now + d <= MaxTime
        /\ now' = now + d
    /\ pc' = "start"
    /\ UNCHANGED <<idx, start_time, current_data, check_duration_ms, row,
                   primary, mirror, backup_directory, fault, closeCalls, notice,
                   cycles, logCalls, invoked, raised>>
    /\ ProbesIdle

\* KeyboardInterrupt anywhere in the try body (lines 302-327), a probe's
\* check() included: the probes catch Exception only (lines 88, 126, 179,
\* 219), and so does line 311, so it propagates to line 329
Interrupt ==
    /\ pc \in Running
    /\ pc' = "stopping"
    /\ UNCHANGED <<idx, now, start_time, current_data, check_duration_ms, row,
                   primary, mirror, backup_directory, fault, closeCalls, notice,
                   cycles, logCalls, invoked, raised>>
    /\ ProbesIdle

\* An Exception raised by a statement of the loop that is outside the try of
\* lines 307-312 and outside CSVLogger.log (e.g. OverflowError of time.sleep,
\* OSError of print): caught at line 331
LoopError ==
    /\ pc \in {"start", "duration", "verbose", "sleep"}
    /\ pc' = "critical"
    /\ UNCHANGED <<idx, now, start_time, current_data, check_duration_ms, row,
                   primary, mirror, backup_directory, fault, closeCalls, notice,
                   cycles, logCalls, invoked, raised>>
    /\ ProbesIdle

\* Lines 329-330
Stopping ==
    /\ pc = "stopping"
    /\ notice' = "stopping"
    /\ pc' = "finally"
    /\ UNCHANGED <<idx, now, start_time, current_data, check_duration_ms, row,
                   primary, mirror, backup_directory, fault, closeCalls,
                   cycles, logCalls, invoked, raised>>
    /\ ProbesIdle

\* Lines 331-332
Critical ==
    /\ pc = "critical"
    /\ notice' = "critical"
    /\ pc' = "finally"
    /\ UNCHANGED <<idx, now, start_time, current_data, check_duration_ms, row,
                   primary, mirror, backup_directory, fault, closeCalls,
                   cycles, logCalls, invoked, raised>>
    /\ ProbesIdle

\* A second KeyboardInterrupt while an except clause (line 330 or 332) runs:
\* the notice is cut short, the finally clause still runs
HandlerInterrupted ==
    /\ pc \in {"stopping", "critical"}
    /\ pc' = "finally"
    /\ UNCHANGED <<idx, now, start_time, current_data, check_duration_ms, row,
                   primary, mirror, backup_directory, fault, closeCalls, notice,
                   cycles, logCalls, invoked, raised>>
    /\ ProbesIdle

\* A close() that is reached from the KeyboardInterrupt clause only
FinallyOnInterruptOnly ==
    /\ pc = "finally"
    /\ closeCalls' = IF notice = "stopping" THEN closeCalls + 1 ELSE closeCalls
    /\ pc' = "exited"
    /\ UNCHANGED <<idx, now, start_time, current_data, check_duration_ms, row,
                   primary, mirror, backup_directory, fault, notice,
                   cycles, logCalls, invoked, raised>>
    /\ ProbesIdle

\* Lines 333-334 and 272-274: logger.close(), then main() returns
Finally ==
    /\ pc = "finally"
    /\ closeCalls' = closeCalls + 1
    /\ pc' = "exited"
    /\ UNCHANGED <<idx, now, start_time, current_data, check_duration_ms, row,
                   primary, mirror, backup_directory, fault, notice,
                   cycles, logCalls, invoked, raised>>
    /\ ProbesIdle


(***************************************************************************)
(* Strings are sequences of characters; the helpers below are Python's     *)
(* str.strip() and str.split('\n').                                        *)
(***************************************************************************)
IsSpace(c) == c \in {" ", "\n"}

RECURSIVE LStrip(_)
LStrip(s) == IF s = <<>> THEN s
             ELSE IF IsSpace(Head(s)) THEN LStrip(Tail(s)) ELSE s

RECURSIVE RStrip(_)
RStrip(s) == IF s = <<>> THEN s
             ELSE IF IsSpace(s[Len(s)]) THEN RStrip(SubSeq(s, 1, Len(s) - 1)) ELSE s

Strip(s) == RStrip(LStrip(s))

\* s.split('\n'): never empty, "".split('\n') is ['']
RECURSIVE SplitNL(_)
SplitNL(s) ==
    IF \A i \in 1..Len(s) : s[i] # "\n" THEN <<s>>
    ELSE LET i == CHOOSE j \in 1..Len(s) :
                      s[j] = "\n" /\ \A k \in 1..(j - 1) : s[k] # "\n"
         IN <<SubSeq(s, 1, i - 1)>> \o SplitNL(SubSeq(s, i + 1, Len(s)))

\* All strings over chars of length at most n
RECURSIVE StringsUpTo(_, _)
StringsUpTo(chars, n) ==
    IF n = 0 THEN {<<>>}
    ELSE LET shorter == StringsUpTo(chars, n - 1)
         IN shorter \cup {Append(t, c) : t \in shorter, c \in chars}

(***************************************************************************)
(* USBMonitor                                                              *)
(***************************************************************************)

\* Kernel-log characters: "u" stands for an occurrence of one of the four
\* phrases of self.patterns (lines 52-57), "x" for any other text
USBChars == {" ", "u", "x"}
KernelLines == StringsUpTo(USBChars, MaxLineLen)

\* The text of a sequence of lines: the lines joined by newlines
RECURSIVE JoinNL(_)
JoinNL(lines) ==
    IF lines = <<>> THEN <<>>
    ELSE IF Len(lines) = 1 THEN lines[1]
    ELSE lines[1] \o <<"\n">> \o JoinNL(Tail(lines))

\* result.stdout: up to MaxLines kernel-log lines
RECURSIVE LineSeqsUpTo(_)
LineSeqsUpTo(n) ==
    IF n = 0 THEN {<<>>}
    ELSE LET shorter == LineSeqsUpTo(n - 1)
         IN shorter \cup {Append(t, l) : t \in shorter, l \in KernelLines}
DmesgOutputs == {JoinNL(ls) : ls \in LineSeqsUpTo(MaxLines)}

\* deque(maxlen=20), line 51
WindowMaxLen == 20

\* Lines 76-79: some pattern matches somewhere in the line
PatternSearch(line) == \E i \in 1..Len(line) : line[i] = "u"

\* Line 64
CurrentLines(stdout) == SplitNL(Strip(stdout))

\* Lines 66-79: the stripped, non-empty lines that are not in the retained
\* window and match a pattern, in order
RECURSIVE NewEvents(_, _)
NewEvents(lines, seen) ==
    IF lines = <<>> THEN <<>>
    ELSE LET line == Strip(Head(lines))
             rest == NewEvents(Tail(lines), seen)
         IN IF line = <<>> THEN rest
            ELSE IF line \in Range(seen) THEN rest
            ELSE IF PatternSearch(line) THEN <<line>> \o rest
            ELSE rest

\* Lines 81-82: clear(), then extend(current_lines) on a deque of maxlen 20
\* keeps the last 20 of the raw lines
DequeExtend(lines) ==
    IF Len(lines) > WindowMaxLen
    THEN SubSeq(lines, Len(lines) - WindowMaxLen + 1, Len(lines))
    ELSE lines

\* Line 89: f"Error: {str(e)}"
ErrorNote == <<"E", "r", "r", "o", "r">>

USBInit ==
    /\ last_seen_lines = <<>>
    /\ usb_stdout = <<>>
    /\ usb_events = <<>>

\* USBMonitor.check, lines 59-86, for one output of the dmesg command
USBCheck ==
    /\ \E stdout \in DmesgOutputs :
        /\ usb_stdout' = stdout
        /\ usb_events' = NewEvents(CurrentLines(stdout), last_seen_lines)
        /\ last_seen_lines' = DequeExtend(CurrentLines(stdout))
    /\ UNCHANGED <<mainVars, powerVars, logVars>>

\* Lines 88-89: subprocess.run raised; the note becomes usb_events and the
\* window is left as it was
USBCheckError ==
    /\ usb_events' = <<ErrorNote>>
    /\ UNCHANGED <<last_seen_lines, usb_stdout>>
    /\ UNCHANGED <<mainVars, powerVars, logVars>>


(***************************************************************************)
(* PowerMonitor                                                            *)
(***************************************************************************)

\* TEMP_WARN_THRESHOLD (75.0), in tenths of a degree
TEMP_WARN_THRESHOLD == 750

\* What one subprocess.run of vcgencmd can do:
\*   "ok"      returncode 0 and a well-formed name=value line
\*   "nonzero" returncode # 0
\*   "raise"   subprocess.run raises (command missing)
\*   "noeq"    returncode 0, no '=' in the output: split('=')[1] raises
\*   "badnum"  returncode 0, the value does not parse: int() / float() raises
FailKinds == {"nonzero", "raise", "noeq", "badnum"}
Raising == {"raise", "noeq", "badnum"}

\* Hex digit strings after "throttled=0x": every single digit, and 50005
ThrottleDigits == {<<d>> : d \in 0..15} \cup {<<5, 0, 0, 0, 5>>}
ThrottleOutcomes == [kind : {"ok"}, val : ThrottleDigits] \cup [kind : FailKinds, val : {<<>>}]
\* Core voltage in millivolts
VoltOutcomes == [kind : {"ok"}, val : {850, 1200}] \cup [kind : FailKinds, val : {0}]
\* Core temperature in tenths of a degree
TempOutcomes == [kind : {"ok"}, val : {400, 750, 751, 812}] \cup [kind : FailKinds, val : {0}]

\* Line 102: int(val_str, 16)
RECURSIVE HexValue(_)
HexValue(digits) ==
    IF digits = <<>> THEN 0
    ELSE 16 * HexValue(SubSeq(digits, 1, Len(digits) - 1)) + digits[Len(digits)]

\* val_int & mask # 0, for a mask of one bit
BitAnd(v, mask) == (v \div mask) % 2 = 1

Field(name, value, present) == IF present THEN name :> value ELSE <<>>

\* A decoder that takes bit 2 for the soft temperature limit and bit 3 for
\* throttling
ThrottleFieldsSwapped(val_str) ==
    LET val_int == HexValue(val_str)
    IN ("throttled_hex" :> val_str)
       @@ Field("throttled_alarm", TRUE, val_int # 0)
       @@ Field("ue_now", TRUE, val_int # 0 /\ BitAnd(val_int, 1))
       @@ Field("freq_cap_now", TRUE, val_int # 0 /\ BitAnd(val_int, 2))
       @@ Field("throt_now", TRUE, val_int # 0 /\ BitAnd(val_int, 8))
       @@ Field("soft_temp_now", TRUE, val_int # 0 /\ BitAnd(val_int, 4))

\* Lines 101-109
ThrottleFields(val_str) ==
    LET val_int == HexValue(val_str)
    IN ("throttled_hex" :> val_str)
       @@ Field("throttled_alarm", TRUE, val_int # 0)
       @@ Field("ue_now", TRUE, val_int # 0 /\ BitAnd(val_int, 1))
       @@ Field("freq_cap_now", TRUE, val_int # 0 /\ BitAnd(val_int, 2))
       @@ Field("throt_now", TRUE, val_int # 0 /\ BitAnd(val_int, 4))
       @@ Field("soft_temp_now", TRUE, val_int # 0 /\ BitAnd(val_int, 8))

\* Lines 114-115
VoltFields(v) == "core_voltage" :> v

\* Lines 120-124
TempFields(t) ==
    ("cpu_temp" :> t) @@ Field("temp_warning", TRUE, t > TEMP_WARN_THRESHOLD)

\* PowerMonitor.check, lines 95-129: the three queries run in one try block,
\* so the first one that raises ends the block and data is returned as it is
PowerCheckData(q1, q2, q3) ==
    LET d1 == IF q1.kind = "ok" THEN ThrottleFields(q1.val) ELSE <<>>
        d2 == IF q2.kind = "ok" THEN d1 @@ VoltFields(q2.val) ELSE d1
        d3 == IF q3.kind = "ok" THEN d2 @@ TempFields(q3.val) ELSE d2
    IN IF q1.kind \in Raising THEN <<>>
       ELSE IF q2.kind \in Raising THEN d1
       ELSE IF q3.kind \in Raising THEN d2
       ELSE d3

NotRun == [kind |-> "none", val |-> <<>>]

PowerInit ==
    /\ power_in = <<NotRun, NotRun, NotRun>>
    /\ power_data = <<>>

PowerCheck ==
    /\ \E q1 \in ThrottleOutcomes, q2 \in VoltOutcomes, q3 \in TempOutcomes :
        /\ power_in' = <<q1, q2, q3>>
        /\ power_data' = PowerCheckData(q1, q2, q3)
    /\ UNCHANGED <<mainVars, usbVars, logVars>>


(***************************************************************************)
(* LogMonitor                                                              *)
(***************************************************************************)

\* Characters of klippy.log.  The three phrases of self.patterns (lines
\* 187-191) are several characters long; here they are two characters long.
LogChars == {"a", "b", "\n"}
LogFiles == StringsUpTo(LogChars, MaxFile)

PatternKeys == <<"timer_close", "mcu_shutdown", "lost_comm">>
PatternText(key) ==
    CASE key = "timer_close" -> <<"a", "b">>
      [] key = "mcu_shutdown" -> <<"b", "a">>
      [] key = "lost_comm" -> <<"a", "a">>

\* pattern.search(line), line 213
Search(pat, line) ==
    \E i \in 1..(Len(line) - Len(pat) + 1) : SubSeq(line, i, i + Len(pat) - 1) = pat

\* f.readlines(), line 207: the lines keep their newline; the last one has
\* none when the data does not end with one
RECURSIVE ReadLines(_)
ReadLines(s) ==
    IF s = <<>> THEN <<>>
    ELSE IF \A i \in 1..Len(s) : s[i] # "\n" THEN <<s>>
    ELSE LET i == CHOOSE j \in 1..Len(s) :
                      s[j] = "\n" /\ \A k \in 1..(j - 1) : s[k] # "\n"
         IN <<SubSeq(s, 1, i)>> \o ReadLines(SubSeq(s, i + 1, Len(s)))

\* line.strip()[:60], line 214
ExcerptLen == 60
Excerpt(line) ==
    LET t == Strip(line)
    IN IF Len(t) > ExcerptLen THEN SubSeq(t, 1, ExcerptLen) ELSE t

\* Lines 212-214 for one line: one entry per pattern that matches
RECURSIVE LineErrors(_, _)
LineErrors(line, k) ==
    IF k > Len(PatternKeys) THEN <<>>
    ELSE (IF Search(PatternText(PatternKeys[k]), line)
          THEN <<[key |-> PatternKeys[k], text |-> Excerpt(line)]>> ELSE <<>>)
         \o LineErrors(line, k + 1)

\* Lines 210-214
RECURSIVE ScanErrors(_)
ScanErrors(lines) ==
    IF lines = <<>> THEN <<>>
    ELSE LineErrors(Head(lines), 1) \o ScanErrors(Tail(lines))

\* An offset that is left alone when the file has shrunk
StartOffsetNoReset(current_size) == file_pos

\* Lines 201-202: the offset the read starts from
StartOffset(current_size) == IF current_size < file_pos THEN 0 ELSE file_pos

\* A read that leaves the offset where the read started
ReadFromNoAdvance(pos) ==
    [lines |-> ReadLines(SubSeq(log_file, pos + 1, Len(log_file))),
     tell |-> pos]

\* Lines 205-208: seek(pos), readlines(), tell()
ReadFrom(pos) ==
    [lines |-> ReadLines(SubSeq(log_file, pos + 1, Len(log_file))),
     tell |-> Len(log_file)]

\* What the last step of the log file's history was
EnvOp(name) == [op |-> name, shrink |-> FALSE, read |-> "none"]

\* LogMonitor.__init__, lines 183-193, for any log file found at start-up
LogInit ==
    /\ log_exists \in BOOLEAN
    /\ log_file \in LogFiles
    /\ ~log_exists => log_file = <<>>
    /\ file_pos = Len(log_file)
    /\ new_lines = <<>>
    /\ log_errors = <<>>
    /\ log_op = EnvOp("init")
    /\ tracking = TRUE
    /\ appended = <<>>
    /\ scanned = <<>>

\* The firmware appends to its log
LogAppend ==
    /\ log_exists
    /\ Len(log_file) < MaxFile
    /\ \E c \in LogChars :
        /\ log_file' = Append(log_file, c)
        /\ appended' = IF tracking THEN Append(appended, c) ELSE <<>>
    /\ log_op' = EnvOp("append")
    /\ UNCHANGED <<log_exists, file_pos, new_lines, log_errors, tracking, scanned>>
    /\ UNCHANGED <<mainVars, usbVars, powerVars>>

\* The log is truncated in place (rotation by copy and truncate)
LogTruncate ==
    /\ log_exists
    /\ log_file # <<>>
    /\ log_file' = <<>>
    /\ log_op' = EnvOp("truncate")
    /\ tracking' = FALSE
    /\ appended' = <<>>
    /\ scanned' = <<>>
    /\ UNCHANGED <<log_exists, file_pos, new_lines, log_errors>>
    /\ UNCHANGED <<mainVars, usbVars, powerVars>>

\* The log is moved away (rotation by rename)
LogRemove ==
    /\ log_exists
    /\ log_exists' = FALSE
    /\ log_file' = <<>>
    /\ log_op' = EnvOp("remove")
    /\ tracking' = FALSE
    /\ appended' = <<>>
    /\ scanned' = <<>>
    /\ UNCHANGED <<file_pos, new_lines, log_errors>>
    /\ UNCHANGED <<mainVars, usbVars, powerVars>>

\* The firmware creates its log
LogCreate ==
    /\ ~log_exists
    /\ log_exists' = TRUE
    /\ log_file' = <<>>
    /\ log_op' = EnvOp("create")
    /\ UNCHANGED <<file_pos, new_lines, log_errors, tracking, appended, scanned>>
    /\ UNCHANGED <<mainVars, usbVars, powerVars>>

\* Line 196: the file does not exist, check() returns None
LogCheckAbsent ==
    /\ ~log_exists
    /\ new_lines' = <<>>
    /\ log_errors' = <<>>
    /\ log_op' = [op |-> "check", shrink |-> FALSE, read |-> "none"]
    /\ UNCHANGED <<log_exists, log_file, file_pos, tracking, appended, scanned>>
    /\ UNCHANGED <<mainVars, usbVars, powerVars>>

\* Lines 198-221 without an exception
LogCheck ==
    /\ log_exists
    /\ LET current_size == Len(log_file)
           pos == StartOffset(current_size)
           got == ReadFrom(pos)
       IN /\ new_lines' = IF current_size > pos THEN got.lines ELSE <<>>
          /\ file_pos' = IF current_size > pos THEN got.tell ELSE pos
          /\ log_errors' = ScanErrors(new_lines')
          /\ log_op' = [op |-> "check",
                        shrink |-> current_size < file_pos,
                        read |-> IF current_size > pos THEN "ok" ELSE "none"]
          /\ scanned' = IF tracking THEN scanned \o new_lines' ELSE <<>>
    /\ UNCHANGED <<log_exists, log_file, tracking, appended>>
    /\ UNCHANGED <<mainVars, usbVars, powerVars>>

\* Lines 205-207 raise (open or readlines fails): the exception is caught at
\* line 219 after the offset was reset at line 202, and before line 208
LogCheckReadError ==
    /\ log_exists
    /\ LET current_size == Len(log_file)
           pos == StartOffset(current_size)
       IN /\ current_size > pos
          /\ file_pos' = pos
          /\ log_op' = [op |-> "check",
                        shrink |-> current_size < file_pos,
                        read |-> "error"]
    /\ new_lines' = <<>>
    /\ log_errors' = <<>>
    /\ tracking' = FALSE
    /\ appended' = <<>>
    /\ scanned' = <<>>
    /\ UNCHANGED <<log_exists, log_file>>
    /\ UNCHANGED <<mainVars, usbVars, powerVars>>

(***************************************************************************)
(* The specifications                                                      *)
(***************************************************************************)

Init == MainInit /\ USBInit /\ PowerInit /\ LogInit /\ log_exists = FALSE

Next ==
    \/ Banner \/ BannerInterrupted \/ CycleStart \/ ProbeReturns \/ ProbeRaises
    \/ Duration \/ Log \/ LogInterrupted \/ Verbose \/ Sleep
    \/ Interrupt \/ LoopError \/ Stopping \/ Critical \/ HandlerInterrupted
    \/ Finally

Spec == Init /\ [][Next]_vars

\* The parts a probe specification does not run
MainIdle == MainInit /\ backup_directory = FALSE

InitUSB == MainIdle /\ USBInit /\ PowerInit /\ LogInit /\ log_exists = FALSE
NextUSB == USBCheck \/ USBCheckError
SpecUSB == InitUSB /\ [][NextUSB]_vars

InitPower == MainIdle /\ USBInit /\ PowerInit /\ LogInit /\ log_exists = FALSE
NextPower == PowerCheck
SpecPower == InitPower /\ [][NextPower]_vars

InitLog == MainIdle /\ USBInit /\ PowerInit /\ LogInit
NextLog ==
    \/ LogAppend \/ LogTruncate \/ LogRemove \/ LogCreate
    \/ LogCheckAbsent \/ LogCheck \/ LogCheckReadError
SpecLog == InitLog /\ [][NextLog]_vars


(***************************************************************************)
(* Properties                                                              *)
(***************************************************************************)

AllMonitors == Range(monitors)

\* C1 (as claimed): with a mirror sink configured, when the primary write,
\* flush or fsync fails inside CSVLogger.log, log() still returns and the
\* row of this cycle is appended to the mirror sink in the same call.
C1_MirrorWrittenDespitePrimaryFailure ==
    [][(/\ pc = "log"
        /\ pc' = "verbose"
        /\ backup_directory
        /\ fault'.primary \in {"write", "flush", "fsync"})
       => mirror' = Append(mirror, cycles)]_vars

C3_ClosedExactlyOnceOnExit ==
    /\ [](closeCalls <= 1 /\ (pc = "exited" => closeCalls = 1))
    /\ [][closeCalls >= 1 => (primary' = primary /\ mirror' = mirror)]_vars

\* C3 witness: the loop ended by a loop-level exception after a row had
\* been written, and close() ran once.
C3_ExitedAfterCriticalError ==
    /\ pc = "exited"
    /\ notice = "critical"
    /\ closeCalls = 1
    /\ primary # <<>>

\* C4 (as claimed): the shutdown notice of an interrupt is printed only
\* between cycles: every cycle that started has run all of its probes and
\* its CSVLogger.log call has returned.
C4_InterruptWaitsForCycleEnd ==
    notice = "stopping" =>
        /\ logCalls = cycles
        /\ cycles > 0 => invoked = AllMonitors

\* C5 (as claimed): the timestamp of the row written in a cycle is the
\* cycle's start time (start_time, from which check_duration_ms is measured).
C5_TimestampIsCycleStart ==
    pc = "verbose" => row.timestamp = start_time

\* C6 (as claimed): over two consecutive check() calls of USBMonitor, a
\* line that the second output repeats from the first one is not reported
\* by the second call (an event with its text comes from a line that is new
\* in the second output, if at all); and when the second output is the first
\* one plus one new matching line, the second call reports exactly that line.
C6_NoLineReportedTwice ==
    [][usb_events' # <<ErrorNote>> =>
        LET A == CurrentLines(usb_stdout)
            B == CurrentLines(usb_stdout')
        IN /\ \A l \in Range(A) \cap Range(B) :
                Strip(l) \in Range(usb_events') =>
                    \E n \in Range(B) \ Range(A) : Strip(n) = Strip(l)
           /\ (/\ Len(B) = Len(A) + 1
               /\ SubSeq(B, 1, Len(A)) = A
               /\ PatternSearch(B[Len(B)])
               /\ \A l \in Range(A) : Strip(l) # Strip(B[Len(B)]))
              => usb_events' = <<Strip(B[Len(B)])>>]_vars

\* C7 (as claimed): a check() that finds the log smaller than its offset
\* scans the whole file in that call and leaves the offset at the file's end.
C7_ShrinkRescansWholeFile ==
    (log_op.op = "check" /\ log_op.shrink) =>
        /\ file_pos = Len(log_file)
        /\ new_lines = ReadLines(log_file)
        /\ log_errors = ScanErrors(ReadLines(log_file))

\* C7 (amended): a check() that finds the log smaller than its offset resets
\* the offset to 0; if its read does not fail it scans the whole file in
\* that call and leaves the offset at the file's end, and if the read fails
\* nothing is scanned and the offset stays at 0.
C7_ShrinkRescansUnlessReadFails ==
    (log_op.op = "check" /\ log_op.shrink) =>
        IF log_op.read = "error"
        THEN file_pos = 0 /\ new_lines = <<>> /\ log_errors = <<>>
        ELSE /\ file_pos = Len(log_file)
             /\ new_lines = ReadLines(log_file)
             /\ log_errors = ScanErrors(ReadLines(log_file))

\* C7 witness: a shrunken, non-empty log was read again from its beginning
\* and a pattern matched in it.
C7_ShrunkenLogRescanned ==
    /\ log_op.op = "check"
    /\ log_op.shrink
    /\ log_op.read = "ok"
    /\ log_errors # <<>>

RECURSIVE Flatten(_)
Flatten(lines) == IF lines = <<>> THEN <<>> ELSE Head(lines) \o Flatten(Tail(lines))

\* C8 (as claimed): throttle code 0x50005 gives throttled_alarm, ue_now and
\* soft_temp_now, and neither freq_cap_now nor throt_now.
C8_Code50005SetsSoftTemp ==
    (power_in[1].kind = "ok" /\ power_in[1].val = <<5, 0, 0, 0, 5>>) =>
        /\ {"throttled_alarm", "ue_now", "soft_temp_now"} \subseteq DOMAIN power_data
        /\ power_data["throttled_alarm"]
        /\ power_data["ue_now"]
        /\ power_data["soft_temp_now"]
        /\ "freq_cap_now" \notin DOMAIN power_data
        /\ "throt_now" \notin DOMAIN power_data

\* C8 (amended): throttle code 0x50005 has bits 0 and 2 set among the low
\* four, so it gives throttled_alarm, ue_now and throt_now, and neither
\* freq_cap_now nor soft_temp_now.
C8_Code50005SetsThrottled ==
    (power_in[1].kind = "ok" /\ power_in[1].val = <<5, 0, 0, 0, 5>>) =>
        /\ {"throttled_alarm", "ue_now", "throt_now"} \subseteq DOMAIN power_data
        /\ power_data["throttled_alarm"]
        /\ power_data["ue_now"]
        /\ power_data["throt_now"]
        /\ power_data["throttled_hex"] = <<5, 0, 0, 0, 5>>
        /\ "freq_cap_now" \notin DOMAIN power_data
        /\ "soft_temp_now" \notin DOMAIN power_data

\* C8 witness: check() ran with the throttle query returning 0x50005.
C8_Code50005Decoded ==
    /\ power_in[1].kind = "ok"
    /\ power_in[1].val = <<5, 0, 0, 0, 5>>
    /\ "throttled_alarm" \in DOMAIN power_data

\* C9 (as claimed): the result of PowerMonitor.check holds the fields of
\* every query that succeeded, whatever the other queries did.
C9_QueriesFailIndependently ==
    /\ power_in[1].kind = "ok" =>
         /\ "throttled_hex" \in DOMAIN power_data
         /\ power_data["throttled_hex"] = power_in[1].val
    /\ power_in[2].kind = "ok" =>
         /\ "core_voltage" \in DOMAIN power_data
         /\ power_data["core_voltage"] = power_in[2].val
    /\ power_in[3].kind = "ok" =>
         /\ "cpu_temp" \in DOMAIN power_data
         /\ power_data["cpu_temp"] = power_in[3].val

\* C10 (as claimed): with no shrink and no read error, once the probe has
\* read up to the end of the log, the lines it scanned, over all its check()
\* calls, are exactly the lines appended since it was constructed.
C10_EveryLineScannedOnce ==
    (tracking /\ file_pos = Len(log_file)) => scanned = ReadLines(appended)

\* C10 (amended): with no shrink and no read error, the offset never
\* decreases and the pieces scanned so far, put end to end, are exactly the
\* appended bytes below the offset: every appended byte is read by exactly
\* one check() call.  No scanned piece spans a newline, so a line whose
\* bytes all arrive between two check() calls is scanned whole and once; a
\* line that is only partly in the file when a check() runs is scanned as
\* two or more fragments, in consecutive reads.
C10_EveryByteReadOnce ==
    /\ [](tracking =>
            LET base == Len(log_file) - Len(appended)
            IN /\ file_pos >= base
               /\ file_pos <= Len(log_file)
               /\ Flatten(scanned) = SubSeq(appended, 1, file_pos - base)
               /\ \A i \in 1..Len(scanned) :
                    /\ scanned[i] # <<>>
                    /\ \A k \in 1..(Len(scanned[i]) - 1) : scanned[i][k] # "\n")
    /\ [][tracking' => file_pos' >= file_pos]_vars

\* C10 witness: the line "ab" was in the file only in part when a check()
\* ran, and was scanned as the two fragments "a" and "b".
C10_TornLineScannedInFragments ==
    /\ tracking
    /\ file_pos = Len(log_file)
    /\ appended = <<"a", "b", "\n">>
    /\ scanned = << <<"a">>, <<"b", "\n">> >>


====
